---- MODULE Spec2Model ----
\* A model of fake-rest's request parser (src/server/request.rs, Request::new)
\* and response resolver (src/server/response.rs, Response::new).
\*
\* Strings and byte vectors are sequences of byte values (0..255); a HashMap is
\* a function whose DOMAIN is its key set; an Option is a sequence of length 0
\* (None) or 1 (Some(v)).
EXTENDS Integers, Sequences, FiniteSets, TLC

VARIABLES
    pc,            \* position of Request::new: "reading", "parsed", "error", "panic", "idle"
    stream,        \* every byte read_u8 has delivered so far (history)
    request_info,  \* request.rs:57
    headers,       \* request.rs:58
    buff,          \* request.rs:59
    cut,           \* the bytes the last buff[..len-2] slice left out (history)
    parse_result,  \* what Request::new returned
    request,       \* the Request handed to Response::new
    server,        \* server.data, the route table
    files,         \* the filesystem: the regular files and their contents
    rpc,           \* position of Response::new: "start", "reading", "done", "idle"
    pending,       \* the locals of Response::new while it awaits the file read
    response       \* what Response::new returned

vars == <<pc, stream, request_info, headers, buff, cut, parse_result,
          request, server, files, rpc, pending, response>>

-----------------------------------------------------------------------------
\* Byte values the code names as character literals.

CR == 13
LF == 10
SP == 32
Colon == 58
QMark == 63
Amp == 38
Equals == 61
Slash == 47
Dot == 46

\* String literals of the code, as their UTF-8 bytes.
STR_GET == <<71, 69, 84>>  \* "GET"
STR_POST == <<80, 79, 83, 84>>  \* "POST"
STR_PUT == <<80, 85, 84>>  \* "PUT"
STR_PATCH == <<80, 65, 84, 67, 72>>  \* "PATCH"
STR_OPTION == <<79, 80, 84, 73, 79, 78>>  \* "OPTION"
STR_DELETE == <<68, 69, 76, 69, 84, 69>>  \* "DELETE"
ContentLengthKey == <<67, 111, 110, 116, 101, 110, 116, 45, 76, 101, 110, 103, 116, 104>>  \* "Content-Length"
ContentTypeKey == <<67, 111, 110, 116, 101, 110, 116, 45, 84, 121, 112, 101>>  \* "Content-Type"
AcceptRangesKey == <<65, 99, 99, 101, 112, 116, 45, 82, 97, 110, 103, 101, 115>>  \* "Accept-Ranges"
NoneValue == <<78, 111, 110, 101>>  \* "None"
ContentDispositionKey == <<67, 111, 110, 116, 101, 110, 116, 45, 68, 105, 115, 112, 111, 115, 105, 116, 105, 111, 110>>  \* "Content-Disposition"
AttachmentPrefix == <<97, 116, 116, 97, 99, 104, 109, 101, 110, 116, 59, 32, 102, 105, 108, 101, 110, 97, 109, 101, 61>>  \* "attachment; filename="
HostKey == <<72, 111, 115, 116>>  \* "Host"
PathNotFoundBody == <<80, 97, 116, 104, 32, 110, 111, 116, 32, 102, 111, 117, 110, 100>>  \* "Path not found"
MethodNotAllowedBody == <<77, 101, 116, 104, 111, 100, 32, 78, 111, 116, 32, 65, 108, 108, 111, 119, 101, 100>>  \* "Method Not Allowed"

-----------------------------------------------------------------------------
\* Library behaviour the code relies on.

EmptyMap == [k \in {} |-> <<>>]

\* HashMap::insert: the last write for a key wins.
MapInsert(m, k, v) == [x \in (DOMAIN m) \cup {k} |-> IF x = k THEN v ELSE m[x]]

\* Position of the first c in s, 0 when s has none.
IndexOf(s, c) ==
    IF \E i \in 1..Len(s) : s[i] = c
    THEN CHOOSE i \in 1..Len(s) : s[i] = c /\ \A j \in 1..(i - 1) : s[j] # c
    ELSE 0

\* str::split(c): the segments between the occurrences of c, never empty as a
\* list (a string without c is its own single segment).
RECURSIVE Split(_, _)
Split(s, c) ==
    LET i == IndexOf(s, c) IN
    IF i = 0 THEN <<s>>
    ELSE <<SubSeq(s, 1, i - 1)>> \o Split(SubSeq(s, i + 1, Len(s)), c)

\* The UTF-8 encodings of the chars char::is_whitespace accepts (the Unicode
\* White_Space property): U+0009..U+000D, U+0020, U+0085, U+00A0, U+1680,
\* U+2000..U+200A, U+2028, U+2029, U+202F, U+205F, U+3000.
WhiteSpaceChars ==
    {<<b>> : b \in {9, 10, 11, 12, 13, 32}}
    \cup {<<194, 133>>, <<194, 160>>, <<225, 154, 128>>}
    \cup {<<226, 128, b>> : b \in 128..138}
    \cup {<<226, 128, 168>>, <<226, 128, 169>>, <<226, 128, 175>>,
          <<226, 129, 159>>, <<227, 128, 128>>}

\* s starts with the bytes w.
StartsWith(s, w) == Len(w) <= Len(s) /\ SubSeq(s, 1, Len(w)) = w

\* s ends with the bytes w.
EndsWith(s, w) == Len(w) <= Len(s) /\ SubSeq(s, Len(s) - Len(w) + 1, Len(s)) = w

\* str::trim_start
RECURSIVE TrimStart(_)
TrimStart(s) ==
    IF \E w \in WhiteSpaceChars : StartsWith(s, w)
    THEN LET w == CHOOSE w \in WhiteSpaceChars : StartsWith(s, w)
         IN  TrimStart(SubSeq(s, Len(w) + 1, Len(s)))
    ELSE s

\* str::trim_end
RECURSIVE TrimEnd(_)
TrimEnd(s) ==
    IF \E w \in WhiteSpaceChars : EndsWith(s, w)
    THEN LET w == CHOOSE w \in WhiteSpaceChars : EndsWith(s, w)
         IN  TrimEnd(SubSeq(s, 1, Len(s) - Len(w)))
    ELSE s

\* str::trim
Trim(s) == TrimEnd(TrimStart(s))

\* usize::to_string: the decimal digits of n as ASCII bytes.
RECURSIVE Decimal(_)
Decimal(n) ==
    IF n < 10 THEN <<48 + n>> ELSE Decimal(n \div 10) \o <<48 + (n % 10)>>

\* String::from_utf8 succeeds exactly on well-formed UTF-8.
RECURSIVE ValidUtf8(_)
ValidUtf8(s) ==
    LET Cont(i) == i <= Len(s) /\ s[i] \in 128..191
        b == s[1]
    IN  IF s = <<>> THEN TRUE
        ELSE IF b < 128 THEN ValidUtf8(Tail(s))
        ELSE IF b \in 194..223 THEN
            Cont(2) /\ ValidUtf8(SubSeq(s, 3, Len(s)))
        ELSE IF b \in 224..239 THEN
            /\ Cont(2) /\ Cont(3)
            /\ (b = 224 => s[2] >= 160)
            /\ (b = 237 => s[2] <= 159)
            /\ ValidUtf8(SubSeq(s, 4, Len(s)))
        ELSE IF b \in 240..244 THEN
            /\ Cont(2) /\ Cont(3) /\ Cont(4)
            /\ (b = 240 => s[2] >= 144)
            /\ (b = 244 => s[2] <= 143)
            /\ ValidUtf8(SubSeq(s, 5, Len(s)))
        ELSE FALSE

\* helpers::get_key_value(line, delimiter): split at the first delimiter, trim
\* both halves; a ParsingError when the line has no delimiter.
get_key_value(line, delimiter) ==
    LET i == IndexOf(line, delimiter) IN
    IF i = 0 THEN [ok |-> FALSE, key |-> <<>>, value |-> <<>>]
    ELSE [ok |-> TRUE,
          key |-> Trim(SubSeq(line, 1, i - 1)),
          value |-> Trim(SubSeq(line, i + 1, Len(line)))]

-----------------------------------------------------------------------------
\* Status (response.rs:6-72)

Status(code, message) == [code |-> code, message |-> message]

StatusOk == Status(200, <<79, 75>>)  \* "OK"
StatusNotFound == Status(404, <<78, 111, 116, 32, 70, 111, 117, 110, 100>>)  \* "Not Found"
StatusMethodNotAllowed ==
    Status(405, <<77, 101, 116, 104, 111, 100, 32, 78, 111, 116, 32, 65, 108, 108, 111, 119, 101, 100>>)  \* "Method Not Allowed"

StatusFrom(status) ==
    CASE status = 200 -> StatusOk
      [] status = 201 -> Status(201, <<67, 114, 101, 97, 116, 101, 100>>)  \* "Created"
      [] status = 400 -> Status(400, <<66, 97, 100, 32, 82, 101, 113, 117, 101, 115, 116>>)  \* "Bad Request"
      [] status = 401 -> Status(401, <<85, 110, 97, 117, 116, 104, 111, 114, 105, 122, 101, 100>>)  \* "Unauthorized"
      [] status = 402 -> Status(402, <<80, 97, 121, 109, 101, 110, 116, 32, 82, 101, 113, 117, 105, 114, 101, 100>>)  \* "Payment Required"
      [] status = 403 -> Status(403, <<70, 111, 114, 98, 105, 100, 100, 101, 110>>)  \* "Forbidden"
      [] status = 404 -> StatusNotFound
      [] status = 405 -> StatusMethodNotAllowed
      [] status = 406 -> Status(406, <<78, 111, 116, 32, 65, 99, 99, 101, 112, 116, 97, 98, 108, 101>>)  \* "Not Acceptable"
      [] status = 422 -> Status(422, <<85, 110, 112, 114, 111, 99, 101, 115, 115, 97, 98, 108, 101, 32, 69, 110, 116, 105, 116, 121>>)  \* "Unprocessable Entity"
      [] status = 500 -> Status(500, <<73, 110, 116, 101, 114, 110, 97, 108, 32, 83, 101, 114, 118, 101, 114, 32, 69, 114, 114, 111, 114>>)  \* "Internal Server Error"
      [] OTHER -> StatusOk

-----------------------------------------------------------------------------
\* The filesystem and the path functions Response::new calls.

\* The regular files of the filesystem when Response::new is called, and their
\* contents.
Files ==
    ( <<102, 46, 116, 120, 116>> :> <<104, 101, 121>> )              \* "f.txt" holds "hey"
    @@ ( <<100, 47, 114, 46, 112, 100, 102>> :> <<37, 255, 10, 49>> )  \* "d/r.pdf" holds bytes that are not UTF-8

\* What another task may write to a file while Response::new is suspended.
RewrittenContents ==
    { <<67, 72, 65, 78, 71, 69, 68, 32, 110, 111, 119>>,  \* "CHANGED now"
      <<255>> }                                            \* not UTF-8

\* Path::is_file on the filesystem fs: false for every path that is no
\* regular file.
is_file(fs, path) == path \in DOMAIN fs

\* Position of the last c in s, 0 when s has none.
LastIndexOf(s, c) ==
    IF \E i \in 1..Len(s) : s[i] = c
    THEN CHOOSE i \in 1..Len(s) : s[i] = c /\ \A j \in (i + 1)..Len(s) : s[j] # c
    ELSE 0

\* Path::file_name of the path of a regular file: its last component.
file_name(path) == SubSeq(path, LastIndexOf(path, Slash) + 1, Len(path))

\* Path::extension: the text after the last '.' of the file name; None when
\* the name has no '.', or only a leading one.
extension(path) ==
    LET name == file_name(path)
        i == LastIndexOf(name, Dot)
    IN  IF i <= 1 THEN <<>> ELSE <<SubSeq(name, i + 1, Len(name))>>

\* ContentType::get_mime_Type: the MIME type of an extension, "" when unmapped.
get_mime_Type(ext) ==
    IF ext = <<112, 100, 102>>  \* "pdf"
    THEN <<97, 112, 112, 108, 105, 99, 97, 116, 105, 111, 110, 47, 112, 100, 102>>  \* "application/pdf"
    ELSE <<>>

-----------------------------------------------------------------------------
\* Response::new (response.rs:82-199)

Ok(status, hdrs, body) ==
    [kind |-> "Ok", status |-> status, headers |-> hdrs, body |-> body]

Err(error) == [kind |-> "Err", error |-> error]

\* MatchRoute with the scan keeping the last entry whose path is the uri (the
\* loop without its break).
MatchRoute_LastMatch(data, uri) ==
    IF \E i \in 1..Len(data) : data[i].path = uri
    THEN CHOOSE i \in 1..Len(data) :
            data[i].path = uri /\ \A j \in (i + 1)..Len(data) : data[j].path # uri
    ELSE 0

\* response.rs:85-91: the index of the first entry whose path is the uri, 0
\* when there is none.
MatchRoute(data, uri) ==
    IF \E i \in 1..Len(data) : data[i].path = uri
    THEN CHOOSE i \in 1..Len(data) :
            data[i].path = uri /\ \A j \in 1..(i - 1) : data[j].path # uri
    ELSE 0

\* response.rs:103
MethodMatches(req, server_data) == req.method = server_data.method

\* RequiredHeadersPresent looking at the first required name only.
RequiredHeadersPresent_FirstOnly(req, server_data) ==
    (server_data.headers # <<>> /\ server_data.headers[1] # <<>>) =>
        server_data.headers[1][1] \in DOMAIN req.headers

\* response.rs:112-118
RequiredHeadersPresent(req, server_data) ==
    server_data.headers # <<>> =>
        \A n \in 1..Len(server_data.headers[1]) :
            server_data.headers[1][n] \in DOMAIN req.headers

\* response.rs:121-127
RequiredQueriesPresent(req, server_data) ==
    server_data.queries # <<>> =>
        \A n \in 1..Len(server_data.queries[1]) :
            server_data.queries[1][n] \in DOMAIN req.query_strings

\* response.rs:131-135
SelectStatus(server_data) ==
    IF server_data.status_code # <<>>
    THEN StatusFrom(server_data.status_code[1])
    ELSE StatusOk

\* DlHeaders naming the whole result path, not its file name.
DlHeaders_FullPath(path) ==
    LET ext == extension(path)
        mime_type == IF ext # <<>> THEN get_mime_Type(ext[1]) ELSE <<>>
        h1 == MapInsert(EmptyMap, ContentTypeKey, mime_type)
        h2 == MapInsert(h1, AcceptRangesKey, NoneValue)
    IN  MapInsert(h2, ContentDispositionKey, AttachmentPrefix \o path)

\* response.rs:155-169: the headers the dl branch sets.
DlHeaders(path) ==
    LET ext == extension(path)
        mime_type == IF ext # <<>> THEN get_mime_Type(ext[1]) ELSE <<>>
        h1 == MapInsert(EmptyMap, ContentTypeKey, mime_type)
        h2 == MapInsert(h1, AcceptRangesKey, NoneValue)
    IN  MapInsert(h2, ContentDispositionKey, AttachmentPrefix \o file_name(path))

\* response.rs:139-169: the body arm up to its await. "ready": the body is
\* there (direct, unknown type); "failed": the path is no file; "reading": the
\* task is suspended in tokio::fs::read_to_string (as_text) or tokio::fs::read.
BeginBody(server_data, fs) ==
    LET path == server_data.result IN
    CASE server_data.result_type = "direct" ->
            [state |-> "ready", headers |-> EmptyMap, body |-> server_data.result]
      [] server_data.result_type = "file" ->
            IF ~is_file(fs, path) THEN [state |-> "failed", error |-> "ConfigFileOpenError"]
            ELSE [state |-> "reading", headers |-> EmptyMap, as_text |-> TRUE]
      [] server_data.result_type = "dl" ->
            IF ~is_file(fs, path) THEN [state |-> "failed", error |-> "ConfigFileOpenError"]
            ELSE [state |-> "reading", headers |-> DlHeaders(path), as_text |-> FALSE]
      [] OTHER -> [state |-> "ready", headers |-> EmptyMap, body |-> <<>>]

\* response.rs:147, 170: the read completing on the filesystem fs. It fails
\* when the file is gone, and read_to_string when the bytes are not UTF-8.
ReadBody(path, as_text, fs) ==
    IF path \notin DOMAIN fs THEN [ok |-> FALSE, error |-> "IoError"]
    ELSE IF as_text /\ ~ValidUtf8(fs[path]) THEN [ok |-> FALSE, error |-> "IoError"]
    ELSE [ok |-> TRUE, body |-> fs[path]]

\* response.rs:183-193: one result_headers string, by str::split(':') and the
\* first two segments it yields.
ParseResultHeader(header_item) ==
    LET item_iter == Split(header_item, Colon) IN
    IF Len(item_iter) < 2 THEN [ok |-> FALSE, key |-> <<>>, value |-> <<>>]
    ELSE [ok |-> TRUE, key |-> Trim(item_iter[1]), value |-> Trim(item_iter[2])]

\* response.rs:181-195: the result_headers applied in order.
RECURSIVE InsertResultHeaders(_, _)
InsertResultHeaders(hdrs, data_header) ==
    IF data_header = <<>> THEN [ok |-> TRUE, headers |-> hdrs]
    ELSE LET kv == ParseResultHeader(Head(data_header)) IN
         IF ~kv.ok THEN [ok |-> FALSE, headers |-> hdrs]
         ELSE InsertResultHeaders(MapInsert(hdrs, kv.key, kv.value), Tail(data_header))

\* response.rs:176-198
AssembleResponse(req, server_data, status, resolved) ==
    LET h1 == MapInsert(resolved.headers, ContentLengthKey, Decimal(Len(resolved.body)))
        h2 == IF HostKey \in DOMAIN req.headers
              THEN MapInsert(h1, HostKey, req.headers[HostKey]) ELSE h1
        h3 == IF server_data.result_headers # <<>>
              THEN InsertResultHeaders(h2, server_data.result_headers[1])
              ELSE [ok |-> TRUE, headers |-> h2]
    IN  IF ~h3.ok THEN Err("ConfigParsingError")
        ELSE Ok(status, h3.headers, resolved.body)

\* The locals Response::new holds while suspended in the file read.
Pending(server_data, status, begun) ==
    [kind |-> "pending", server_data |-> server_data, status |-> status,
     headers |-> begun.headers, as_text |-> begun.as_text]

\* response.rs:139-198 for an entry that passed the checks: the response, or
\* the suspended state when a file has to be read.
BodyAndHeaders(req, server_data, fs) ==
    LET status == SelectStatus(server_data)
        begun == BeginBody(server_data, fs)
    IN  CASE begun.state = "failed" -> Err(begun.error)
          [] begun.state = "reading" -> Pending(server_data, status, begun)
          [] OTHER -> AssembleResponse(req, server_data, status,
                                       [headers |-> begun.headers, body |-> begun.body])

\* StartResponse with the method compared after the required headers and
\* queries are checked.
StartResponse_MethodCheckedLate(req, data, fs) ==
    LET i == MatchRoute(data, req.uri) IN
    IF i = 0 THEN Ok(StatusNotFound, EmptyMap, PathNotFoundBody)
    ELSE LET server_data == data[i] IN
         IF ~RequiredHeadersPresent(req, server_data)
         THEN Err("ConfigRequiredHeadersError")
         ELSE IF ~RequiredQueriesPresent(req, server_data)
         THEN Err("ConfigRequiredQueriesError")
         ELSE IF ~MethodMatches(req, server_data)
         THEN Ok(StatusMethodNotAllowed, EmptyMap, MethodNotAllowedBody)
         ELSE BodyAndHeaders(req, server_data, fs)

\* response.rs:82-169, and on to 198 when no file is read: Response::new from
\* its call to its first await or its return.
StartResponse(req, data, fs) ==
    LET i == MatchRoute(data, req.uri) IN
    IF i = 0 THEN Ok(StatusNotFound, EmptyMap, PathNotFoundBody)
    ELSE LET server_data == data[i] IN
         IF ~MethodMatches(req, server_data)
         THEN Ok(StatusMethodNotAllowed, EmptyMap, MethodNotAllowedBody)
         ELSE IF ~RequiredHeadersPresent(req, server_data)
         THEN Err("ConfigRequiredHeadersError")
         ELSE IF ~RequiredQueriesPresent(req, server_data)
         THEN Err("ConfigRequiredQueriesError")
         ELSE BodyAndHeaders(req, server_data, fs)

\* response.rs:147/170-198: Response::new from the file read completing to
\* its return.
FinishResponse(req, p, fs) ==
    LET read == ReadBody(p.server_data.result, p.as_text, fs) IN
    IF ~read.ok THEN Err(read.error)
    ELSE AssembleResponse(req, p.server_data, p.status,
                          [headers |-> p.headers, body |-> read.body])

\* response.rs:82-199: what Response::new returns when the filesystem is fs0
\* at the is_file test and fs1 when the read completes.
ResponseNew(req, data, fs0, fs1) ==
    LET started == StartResponse(req, data, fs0) IN
    IF started.kind = "pending" THEN FinishResponse(req, started, fs1)
    ELSE started

-----------------------------------------------------------------------------
\* Request::new (request.rs:56-105)

\* Method::from(String), request.rs:18-30
MethodFrom(s) ==
    CASE s = STR_GET -> "GET"
      [] s = STR_POST -> "POST"
      [] s = STR_PUT -> "PUT"
      [] s = STR_PATCH -> "PATCH"
      [] s = STR_OPTION -> "OPTION"
      [] s = STR_DELETE -> "DELETE"
      [] OTHER -> "GET"

\* Iterator::next().unwrap_or(""): the n-th segment, "" when there is none.
NthOrEmpty(segments, n) == IF n <= Len(segments) THEN segments[n] ELSE <<>>

\* request.rs:97-102: the query map of the text str::split('?') yields second.
RECURSIVE InsertQueries(_, _)
InsertQueries(query_strings, segments) ==
    IF segments = <<>> THEN [ok |-> TRUE, map |-> query_strings]
    ELSE LET result == get_key_value(Head(segments), Equals) IN
         IF ~result.ok THEN [ok |-> FALSE, map |-> query_strings]
         ELSE InsertQueries(MapInsert(query_strings, result.key, result.value),
                            Tail(segments))

\* request.rs:82-104: the Request built once the loop has left.
BuildRequest(info, hdrs) ==
    LET request_info_iter == Split(info, SP)
        method == MethodFrom(NthOrEmpty(request_info_iter, 1))
        target == NthOrEmpty(request_info_iter, 2)
        version == NthOrEmpty(request_info_iter, 3)
        uri_iter == Split(target, QMark)
        uri == uri_iter[1]
        queries == IF Len(uri_iter) >= 2
                   THEN InsertQueries(EmptyMap, Split(uri_iter[2], Amp))
                   ELSE [ok |-> TRUE, map |-> EmptyMap]
    IN  IF ~queries.ok THEN Err("ParsingError")
        ELSE [kind |-> "Ok",
              request |-> [method |-> method, uri |-> uri, version |-> version,
                           headers |-> hdrs, query_strings |-> queries.map]]

NoResult == [kind |-> "none"]

\* Bounds of the model.
MaxBytes == 8
MaxLine == 5
MaxRoutes == 2

\* The bytes a peer sends.
StreamBytes == {CR, LF, SP, Colon, 97, 255}
\* The bytes of a request line.
LineBytes == {SP, QMark, Amp, Equals, 97}

SeqsUpTo(S, n) == UNION {[1..k -> S] : k \in 0..n}

\* request.rs:63: buff.push(byte)
Pushed(byte) == Append(buff, byte)

\* request.rs:66, 73: buff[..buff.len() - 2]
LineOf(b) == SubSeq(b, 1, Len(b) - 2)

\* The two bytes the slice leaves out.
CutOf(b) == SubSeq(b, Len(b) - 1, Len(b))

ParserIdle ==
    /\ pc = "idle" /\ stream = <<>> /\ request_info = <<>>
    /\ headers = EmptyMap /\ buff = <<>> /\ cut = <<>> /\ parse_result = NoResult

ResolverIdle ==
    /\ request = NoResult /\ server = <<>> /\ response = NoResult
    /\ files = Files /\ rpc = "idle" /\ pending = NoResult

ResolverUnchanged == UNCHANGED <<request, server, files, rpc, pending, response>>

InitParse ==
    /\ pc = "reading" /\ stream = <<>> /\ request_info = <<>>
    /\ headers = EmptyMap /\ buff = <<>> /\ cut = <<>> /\ parse_result = NoResult
    /\ ResolverIdle

\* request.rs:62-64: a byte other than '\n' is pushed and the loop goes on.
ReadByte ==
    /\ pc = "reading" /\ Len(stream) < MaxBytes
    /\ \E byte \in StreamBytes \ {LF} :
        /\ stream' = Append(stream, byte)
        /\ buff' = Pushed(byte)
    /\ UNCHANGED <<pc, request_info, headers, cut, parse_result>>
    /\ ResolverUnchanged

\* request.rs:62: read_u8 fails (the peer closed the connection).
ReadFails ==
    /\ pc = "reading"
    /\ pc' = "error" /\ parse_result' = Err("IoError")
    /\ UNCHANGED <<stream, request_info, headers, buff, cut>>
    /\ ResolverUnchanged

\* request.rs:66, 73: '\n' arrives while buff holds no other byte, so
\* buff.len() - 2 is out of range and the task panics.
SlicePanics ==
    /\ pc = "reading" /\ Len(stream) < MaxBytes
    /\ Len(Pushed(LF)) < 2
    /\ stream' = Append(stream, LF) /\ buff' = Pushed(LF)
    /\ pc' = "panic"
    /\ UNCHANGED <<request_info, headers, cut, parse_result>>
    /\ ResolverUnchanged

\* request.rs:65-67: '\n' arrives while request_info is empty.
ReadRequestLine ==
    /\ pc = "reading" /\ Len(stream) < MaxBytes
    /\ request_info = <<>>
    /\ Len(Pushed(LF)) >= 2
    /\ stream' = Append(stream, LF)
    /\ cut' = CutOf(Pushed(LF))
    /\ IF ValidUtf8(LineOf(Pushed(LF)))
       THEN /\ request_info' = LineOf(Pushed(LF))
            /\ buff' = <<>>
            /\ UNCHANGED <<pc, parse_result>>
       ELSE /\ pc' = "error" /\ parse_result' = Err("ParsingError")
            /\ buff' = Pushed(LF)
            /\ UNCHANGED request_info
    /\ UNCHANGED headers
    /\ ResolverUnchanged

\* request.rs:69-71, 82-104: the bare "\r\n" after a request line leaves the
\* loop and the Request is built.
EndOfHeaders ==
    /\ pc = "reading" /\ Len(stream) < MaxBytes
    /\ request_info # <<>>
    /\ Len(Pushed(LF)) = 2 /\ Pushed(LF)[1] = CR
    /\ stream' = Append(stream, LF) /\ buff' = Pushed(LF)
    /\ parse_result' = BuildRequest(request_info, headers)
    /\ pc' = IF parse_result'.kind = "Ok" THEN "parsed" ELSE "error"
    /\ UNCHANGED <<request_info, headers, cut>>
    /\ ResolverUnchanged

\* request.rs:73-77: any other line after the request line is a header line.
ReadHeaderLine ==
    /\ pc = "reading" /\ Len(stream) < MaxBytes
    /\ request_info # <<>>
    /\ Len(Pushed(LF)) >= 2
    /\ ~(Len(Pushed(LF)) = 2 /\ Pushed(LF)[1] = CR)
    /\ stream' = Append(stream, LF)
    /\ cut' = CutOf(Pushed(LF))
    /\ LET header_line == LineOf(Pushed(LF))
           header == get_key_value(header_line, Colon)
       IN  IF ValidUtf8(header_line) /\ header.ok
           THEN /\ headers' = MapInsert(headers, header.key, header.value)
                /\ buff' = <<>>
                /\ UNCHANGED <<pc, parse_result>>
           ELSE /\ pc' = "error" /\ parse_result' = Err("ParsingError")
                /\ buff' = Pushed(LF)
                /\ UNCHANGED headers
    /\ UNCHANGED request_info
    /\ ResolverUnchanged

NextParse ==
    \/ ReadByte
    \/ ReadFails
    \/ SlicePanics
    \/ ReadRequestLine
    \/ EndOfHeaders
    \/ ReadHeaderLine

SpecParse == InitParse /\ [][NextParse]_vars

\* The request-line half of Request::new on its own: any request line the loop
\* can have stored (the loop leaves only once request_info is not empty), then
\* request.rs:82-104.
InitLine ==
    /\ pc = "line" /\ stream = <<>>
    /\ request_info \in SeqsUpTo(LineBytes, MaxLine) \ {<<>>}
    /\ headers = EmptyMap /\ buff = <<>> /\ cut = <<>> /\ parse_result = NoResult
    /\ ResolverIdle

ParseRequestInfo ==
    /\ pc = "line"
    /\ parse_result' = BuildRequest(request_info, headers)
    /\ pc' = IF parse_result'.kind = "Ok" THEN "parsed" ELSE "error"
    /\ UNCHANGED <<stream, request_info, headers, buff, cut>>
    /\ ResolverUnchanged

NextLine == ParseRequestInfo

SpecLine == InitLine /\ [][NextLine]_vars

-----------------------------------------------------------------------------
\* Response::new on the requests and route tables of a small universe.

PathA == <<47, 97>>  \* "/a"
PathB == <<47, 98>>  \* "/b"
PathC == <<47, 99>>  \* "/c"
NameX == <<88>>  \* "X"
NameId == <<105, 100>>  \* "id"
HelloText == <<104, 101, 108, 108, 111, 44, 32, 119, 111, 114, 108, 100>>  \* "hello, world"
TextFile == <<102, 46, 116, 120, 116>>  \* "f.txt"
PdfFile == <<100, 47, 114, 46, 112, 100, 102>>  \* "d/r.pdf"

HeaderMaps ==
    { EmptyMap,
      NameX :> <<49>>,
      HostKey :> <<104>>,
      (NameX :> <<49>>) @@ (HostKey :> <<104>>) }

QueryMaps == { EmptyMap, NameId :> <<49>> }

Requests ==
    [method : {"GET", "POST"}, uri : {PathA, PathC}, version : {<<>>},
     headers : HeaderMaps, query_strings : QueryMaps]

ResultHeaderLists ==
    { <<>>,
      << << <<75, 58, 32, 118>> >> >>,  \* ["K: v"]
      << << <<110, 99>> >> >>,  \* ["nc"]
      << << <<76, 58, 32, 104, 58, 120>> >> >>,  \* ["L: h:x"]
      << << ContentLengthKey \o <<58, 32, 48>> >> >>,  \* ["Content-Length: 0"]
      << << ContentDispositionKey \o <<58, 120>>, <<75, 58, 194, 160, 118>> >> >> }  \* ["Content-Disposition:x", "K:<U+00A0>v"]

RouteEntries ==
    [path : {PathA, PathB}, method : {"GET", "POST"},
     headers : {<<>>, << <<NameX>> >>, << <<HostKey, NameX>> >>},
     queries : {<<>>, << <<NameId>> >>},
     status_code : {<<>>, <<404>>, <<999>>},
     result_type : {"direct", "file", "dl", "json"},
     result : {HelloText, TextFile, PdfFile},
     result_headers : ResultHeaderLists]

\* The entries route tables of more than one entry are made of.
TableEntries ==
    { e \in RouteEntries :
        \/ /\ e.headers = <<>> /\ e.queries = <<>> /\ e.status_code = <<>>
           /\ e.result_type = "direct" /\ e.result = HelloText
           /\ e.result_headers = <<>>
        \/ /\ e.headers = << <<NameX>> >> /\ e.queries = <<>> /\ e.status_code = <<404>>
           /\ e.result_type = "file" /\ e.result = TextFile
           /\ e.result_headers = << << <<75, 58, 32, 118>> >> >>
        \/ /\ e.headers = <<>> /\ e.queries # <<>> /\ e.status_code = <<999>>
           /\ e.result_type = "dl" /\ e.result = PdfFile
           /\ e.result_headers = <<>>
        \/ /\ e.headers = << <<HostKey, NameX>> >> /\ e.queries # <<>> /\ e.status_code = <<>>
           /\ e.result_type = "dl" /\ e.result = HelloText
           /\ e.result_headers = << << <<110, 99>> >> >> }

RouteTables ==
    {<<e>> : e \in RouteEntries} \cup SeqsUpTo(TableEntries, MaxRoutes)

InitResolve ==
    /\ ParserIdle
    /\ request \in Requests
    /\ server \in RouteTables
    /\ files = Files
    /\ rpc = "start"
    /\ pending = NoResult
    /\ response = NoResult

ParserUnchanged ==
    UNCHANGED <<pc, stream, request_info, headers, buff, cut, parse_result>>

\* response.rs:82-169: Response::new runs to its return, or to the await of
\* the file read.
ResolveStart ==
    /\ rpc = "start"
    /\ LET started == StartResponse(request, server, files) IN
       IF started.kind = "pending"
       THEN /\ pending' = started /\ rpc' = "reading"
            /\ UNCHANGED response
       ELSE /\ response' = started /\ rpc' = "done"
            /\ UNCHANGED pending
    /\ UNCHANGED <<request, server, files>>
    /\ ParserUnchanged

\* Another task removes the file while Response::new is suspended.
FileRemoved ==
    /\ rpc = "reading"
    /\ pending.server_data.result \in DOMAIN files
    /\ files' = [p \in (DOMAIN files) \ {pending.server_data.result} |-> files[p]]
    /\ UNCHANGED <<request, server, rpc, pending, response>>
    /\ ParserUnchanged

\* Another task rewrites the file while Response::new is suspended.
FileRewritten ==
    /\ rpc = "reading"
    /\ \E contents \in RewrittenContents :
        files' = MapInsert(files, pending.server_data.result, contents)
    /\ UNCHANGED <<request, server, rpc, pending, response>>
    /\ ParserUnchanged

\* response.rs:147/170-198: the read completes and Response::new returns.
ResolveFinish ==
    /\ rpc = "reading"
    /\ response' = FinishResponse(request, pending, files)
    /\ rpc' = "done"
    /\ UNCHANGED <<request, server, files, pending>>
    /\ ParserUnchanged

NextResolve ==
    \/ ResolveStart
    \/ FileRemoved
    \/ FileRewritten
    \/ ResolveFinish

SpecResolve == InitResolve /\ [][NextResolve]_vars


-----------------------------------------------------------------------------
\* Properties of Response::new.

Resolved == response.kind # "none"

\* Entry i is the entry with the lowest index whose path equals request.uri.
Selected(i) ==
    /\ i \in 1..Len(server)
    /\ server[i].path = request.uri
    /\ \A j \in 1..(i - 1) : server[j].path # request.uri

\* Entry i is selected and its method is the request's.
Matched(i) == Selected(i) /\ server[i].method = request.method

\* Some name of the Option<Vec<String>> opt is not a key of map m.
SomeNameMissing(opt, m) ==
    opt # <<>> /\ \E n \in 1..Len(opt[1]) : opt[1][n] \notin DOMAIN m

\* The result_headers strings of entry e.
ResultHeaderItems(e) == IF e.result_headers = <<>> THEN <<>> ELSE e.result_headers[1]

\* The trimmed text before the first ':' of a result_headers string.
KeyBeforeColon(item) ==
    Trim(SubSeq(item, 1, IF IndexOf(item, Colon) = 0 THEN Len(item)
                         ELSE IndexOf(item, Colon) - 1))

\* The trimmed whole text after the first ':' of a result_headers string.
ValueAfterColon(item) == Trim(SubSeq(item, IndexOf(item, Colon) + 1, Len(item)))

\* Some result_headers string of entry e has the key k.
NamesHeader(e, k) ==
    \E n \in 1..Len(ResultHeaderItems(e)) : KeyBeforeColon(ResultHeaderItems(e)[n]) = k

\* C1: every Response the resolver returns, the 404 and 405 responses and the
\* routes whose result_headers name Content-Length included, has the header
\* Content-Length, and its value is the decimal byte length of the body.
C1_ContentLengthAlwaysAccurate ==
    (Resolved /\ response.kind = "Ok") =>
        /\ ContentLengthKey \in DOMAIN response.headers
        /\ response.headers[ContentLengthKey] = Decimal(Len(response.body))

\* C2: when the first entry whose path equals request.uri has another method
\* than the request, the resolver returns the 405 response with the body
\* "Method Not Allowed" and never an error, whatever else the entry holds.
C2_MethodMismatchGives405 ==
    Resolved =>
        \A i \in 1..Len(server) :
            (Selected(i) /\ server[i].method # request.method) =>
                /\ response.kind = "Ok"
                /\ response.status = StatusMethodNotAllowed
                /\ response.status.code = 405
                /\ response.body = MethodNotAllowedBody

\* A method mismatch on an entry whose required header the request lacks and
\* whose result_headers string has no ':' has been resolved.
C2_Witness ==
    /\ Resolved
    /\ \E i \in 1..Len(server) :
        /\ Selected(i) /\ server[i].method # request.method
        /\ SomeNameMissing(server[i].headers, request.headers)
        /\ SomeNameMissing(server[i].queries, request.query_strings)
        /\ server[i].result_type = "dl" /\ ~is_file(Files, server[i].result)
        /\ \E n \in 1..Len(ResultHeaderItems(server[i])) :
              IndexOf(ResultHeaderItems(server[i])[n], Colon) = 0

\* C3: the entry used for the method check, the precondition checks, status,
\* body and headers is the entry with the lowest index whose path equals
\* request.uri: the response is the one the table made of that entry alone
\* gives on the same filesystem, whatever entries follow it.
C3_FirstMatchWins ==
    Resolved =>
        \A i \in 1..Len(server) :
            Selected(i) => response = ResponseNew(request, <<server[i]>>, Files, files)

\* Two entries share the request's path, the earlier with another method and
\* the later one matching fully, and the response is the earlier one's 405.
C3_Witness ==
    /\ Resolved
    /\ Len(server) >= 2
    /\ server[1].path = request.uri /\ server[2].path = request.uri
    /\ server[1].method # request.method /\ server[2].method = request.method
    /\ ResponseNew(request, <<server[2]>>, Files, files).kind = "Ok"
    /\ ResponseNew(request, <<server[2]>>, Files, files).status.code = 200
    /\ response.kind = "Ok" /\ response.status.code = 405

\* C4: for a request whose path and method match the selected entry, a
\* missing required header gives ConfigRequiredHeadersError; with all required
\* headers present a missing required query gives ConfigRequiredQueriesError;
\* anything else is returned only when every declared name is present.
C4_RequiredNamesChecked ==
    Resolved =>
        \A i \in 1..Len(server) :
            Matched(i) =>
                LET noHeader == SomeNameMissing(server[i].headers, request.headers)
                    noQuery == SomeNameMissing(server[i].queries, request.query_strings)
                IN  /\ noHeader => response = Err("ConfigRequiredHeadersError")
                    /\ (~noHeader /\ noQuery) =>
                            response = Err("ConfigRequiredQueriesError")
                    /\ (~noHeader /\ ~noQuery) =>
                            \/ response.kind = "Ok"
                            \/ response.error \notin {"ConfigRequiredHeadersError",
                                                      "ConfigRequiredQueriesError"}

\* A matched entry requires the headers Host and X and the query id; the
\* request has Host only and no query, and the headers error came back.
C4_Witness ==
    /\ Resolved
    /\ \E i \in 1..Len(server) :
        /\ Matched(i)
        /\ server[i].headers = << <<HostKey, NameX>> >>
        /\ HostKey \in DOMAIN request.headers
        /\ NameX \notin DOMAIN request.headers
        /\ SomeNameMissing(server[i].queries, request.query_strings)
    /\ response = Err("ConfigRequiredHeadersError")

\* What C5 says of the Response of matched entry e.
DispositionFollowsType(e) ==
    /\ e.result_type = "dl" =>
        /\ ContentDispositionKey \in DOMAIN response.headers
        /\ response.headers[ContentDispositionKey]
              = AttachmentPrefix \o file_name(e.result)
    /\ e.result_type \in {"direct", "file"} =>
        ContentDispositionKey \notin DOMAIN response.headers

\* C5 as claimed: in every Response for a matched route, Content-Disposition
\* is "attachment; filename=<basename>" for dl and absent for direct and file,
\* entries with result_headers included.
C5_DispositionAsClaimed ==
    (Resolved /\ response.kind = "Ok") =>
        \A i \in 1..Len(server) : Matched(i) => DispositionFollowsType(server[i])

\* C5 as amended: the same, for the matched routes none of whose
\* result_headers strings has the key Content-Disposition.
C5_DispositionUnlessConfigured ==
    (Resolved /\ response.kind = "Ok") =>
        \A i \in 1..Len(server) :
            (Matched(i) /\ ~NamesHeader(server[i], ContentDispositionKey)) =>
                DispositionFollowsType(server[i])

\* A dl entry in a directory, carrying result_headers, has been served.
C5_Witness ==
    /\ Resolved /\ response.kind = "Ok"
    /\ \E i \in 1..Len(server) :
        /\ Matched(i)
        /\ server[i].result_type = "dl" /\ server[i].result = PdfFile
        /\ server[i].result_headers # <<>>
        /\ ~NamesHeader(server[i], ContentDispositionKey)
    /\ response.headers[ContentDispositionKey] = AttachmentPrefix \o <<114, 46, 112, 100, 102>>  \* "r.pdf"

\* C9: each result_headers string of the matched route is split at its first
\* ':' only; the trimmed text before it is the key, the trimmed whole text
\* after it the value, a later string with the same key overwrites, and a
\* string without ':' gives ConfigParsingError.
C9_ResultHeadersSplitAtFirstColon ==
    Resolved =>
        \A i \in 1..Len(server) :
            ( /\ Matched(i)
              /\ ~SomeNameMissing(server[i].headers, request.headers)
              /\ ~SomeNameMissing(server[i].queries, request.query_strings)
              /\ ~(response.kind = "Err"
                    /\ response.error \in {"ConfigFileOpenError", "IoError"}) ) =>
                LET items == ResultHeaderItems(server[i]) IN
                IF \E n \in 1..Len(items) : IndexOf(items[n], Colon) = 0
                THEN response = Err("ConfigParsingError")
                ELSE /\ response.kind = "Ok"
                     /\ \A n \in 1..Len(items) :
                          (\A m \in (n + 1)..Len(items) :
                              KeyBeforeColon(items[m]) # KeyBeforeColon(items[n])) =>
                            /\ KeyBeforeColon(items[n]) \in DOMAIN response.headers
                            /\ response.headers[KeyBeforeColon(items[n])]
                                  = ValueAfterColon(items[n])

-----------------------------------------------------------------------------
\* Properties of Request::new.

\* s[i-1], s[i] are "\r\n".
CrlfAt(s, i) == i >= 2 /\ i <= Len(s) /\ s[i - 1] = CR /\ s[i] = LF

\* i is where the first CRLF-terminated line of s ends.
FirstLineEndsAt(s, i) == CrlfAt(s, i) /\ \A k \in 1..(i - 1) : ~CrlfAt(s, k)

\* The lines of a text in which every line ends in CRLF.
RECURSIVE CrlfLines(_)
CrlfLines(s) ==
    IF s = <<>> THEN <<>>
    ELSE IF \E i \in 1..Len(s) : CrlfAt(s, i)
    THEN LET i == CHOOSE i \in 1..Len(s) : FirstLineEndsAt(s, i)
         IN  <<SubSeq(s, 1, i - 2)>> \o CrlfLines(SubSeq(s, i + 1, Len(s)))
    ELSE <<s>>

\* The first line of s ends at f and j is where the first empty line after it
\* ends.
FirstBlankLineEndsAt(s, f, j) ==
    /\ FirstLineEndsAt(s, f)
    /\ j >= f + 2 /\ CrlfAt(s, j) /\ CrlfAt(s, j - 2)
    /\ \A k \in (f + 2)..(j - 1) : ~(CrlfAt(s, k) /\ CrlfAt(s, k - 2))

\* The header lines between the first line and the blank line all hold ':'.
HeaderLinesHaveColon(s, f, j) ==
    LET lines == CrlfLines(SubSeq(s, f + 1, j - 2)) IN
    \A n \in 1..Len(lines) : IndexOf(lines[n], Colon) # 0

\* C7: the first CRLF-terminated line is the request line and reading stops
\* at the first following empty line: for a stream of well-formed text whose
\* header lines all hold ':', parsing has succeeded once that blank line is
\* read, and no byte after it is read.
C7_StopsAtFirstBlankLine ==
    \A f \in 1..Len(stream) : \A j \in 1..Len(stream) :
        ( /\ FirstBlankLineEndsAt(stream, f, j)
          /\ HeaderLinesHaveColon(stream, f, j)
          /\ ValidUtf8(SubSeq(stream, 1, j))
          /\ BuildRequest(SubSeq(stream, 1, f - 2), EmptyMap).kind = "Ok" ) =>
            /\ Len(stream) = j
            /\ pc = "parsed"

\* C8: a request line with empty or missing tokens is no parse error: once
\* the first line and the blank line after it are read, the parser has
\* returned a Request whose method, uri and version come from that first
\* line, each missing token being "" (so method GET and uri ""), the
\* completely empty first line included.
C8_MissingTokensDefaultToEmpty ==
    \A f \in 1..Len(stream) :
        ( /\ FirstLineEndsAt(stream, f)
          /\ Len(stream) = f + 2 /\ CrlfAt(stream, f + 2)
          /\ ValidUtf8(stream)
          /\ IndexOf(stream, QMark) = 0 ) =>
            LET tokens == Split(SubSeq(stream, 1, f - 2), SP) IN
            /\ pc = "parsed"
            /\ parse_result.kind = "Ok"
            /\ parse_result.request.method = MethodFrom(NthOrEmpty(tokens, 1))
            /\ parse_result.request.uri = NthOrEmpty(tokens, 2)
            /\ parse_result.request.version = NthOrEmpty(tokens, 3)

\* C10: whenever the parser cuts the terminator off a line the buffer holds
\* at least two bytes and the two bytes cut are "\r\n": no input makes the
\* slice panic and no other byte is dropped.
C10_SliceCutsOnlyCrlf ==
    /\ pc # "panic"
    /\ cut # <<>> => cut = <<CR, LF>>

\* The request-target of a request line: its second space-separated token.
TargetOf(info) == NthOrEmpty(Split(info, SP), 2)

\* C6: the request-target is split at its first '?' only: uri is the text
\* before it, and query_strings is built from the whole remainder, split on
\* '&' and each segment at '='; without '?' the query map is empty. Nothing
\* after the first '?' is dropped, a second '?' included.
C6_TargetSplitAtFirstQMark ==
    pc \in {"parsed", "error"} =>
        LET target == TargetOf(request_info)
            q == IndexOf(target, QMark)
            rest == SubSeq(target, q + 1, Len(target))
            expected == InsertQueries(EmptyMap, Split(rest, Amp))
        IN  IF q = 0
            THEN /\ parse_result.kind = "Ok"
                 /\ parse_result.request.uri = target
                 /\ parse_result.request.query_strings = EmptyMap
            ELSE IF expected.ok
            THEN /\ parse_result.kind = "Ok"
                 /\ parse_result.request.uri = SubSeq(target, 1, q - 1)
                 /\ IndexOf(parse_result.request.uri, QMark) = 0
                 /\ parse_result.request.query_strings = expected.map
            ELSE parse_result.kind = "Err"


====
